---- MODULE Spec2Model ----
(***************************************************************************)
(* Model of runpod/cli/groups/project/functions.py: the project commands   *)
(* launch_project, create_project_endpoint and the supervisory shell       *)
(* script that start_project_api runs on the pod.                          *)
(***************************************************************************)
EXTENDS Integers, Sequences, FiniteSets, TLC

\* ------------------------------------------------------------------ bounds
\* get_pod polls one launch_project run may make before the model stops it
MaxPolls == 2
\* file events during one run of the supervisory script
MaxEvents == 2
\* characters in .runpodignore
MaxFileLen == 4

\* ---------------------------------------------------------------- universe
\* Two command invocations, which may overlap in time.
Procs == {"p1", "p2"}

ProjectIdKey == "RUNPOD_PROJECT_ID"
OtherKey == "HF_TOKEN"
ProjectUuid == "u1"
Null == "null"

\* Pod ids the remote service hands out; "pod0" is a pod of an earlier launch.
PodNames == <<"pod1", "pod2">>
OldPod == "pod0"
TemplateNames == <<"tpl1", "tpl2">>
EndpointNames == <<"ep1", "ep2">>

EmptyEnv == [k \in {} |-> Null]

\* The env_vars tables a runpod.toml can hold: the project-id key absent,
\* bound to the uuid, or bound to something else; another key present or not.
EnvChoices ==
    { e \in UNION { [d -> {ProjectUuid, "zz", "tok"}] : d \in SUBSET {ProjectIdKey, OtherKey} } :
        /\ (ProjectIdKey \in DOMAIN e => e[ProjectIdKey] \in {ProjectUuid, "zz"})
        /\ (OtherKey \in DOMAIN e => e[OtherKey] = "tok") }

\* None, as the value of new_pod
NoPod == [id |-> "none", desiredStatus |-> "none", runtime |-> Null]

VARIABLES
    config,      \* runpod.toml as load_project_config returns it
    pods,        \* pods on the remote service
    templates,   \* templates on the remote service
    endpoints,   \* endpoints on the remote service
    volume,      \* what the bootstrap has put on the network volume
    pc,          \* each invocation's position
    cfg,         \* each invocation's loaded config
    new_pod,     \* launch_project: the last observed pod descriptor
    environment_variables,     \* each invocation's environment_variables
    project_endpoint_template, \* create_project_endpoint: project_endpoint_template['id']
    deployed_endpoint,         \* create_project_endpoint: deployed_endpoint['id'], returned
    trace,       \* each invocation's remote calls, in order
    polls,       \* get_pod calls made by each launch_project run
    step,        \* launch_project: bootstrap steps completed
    project_pod, \* start_project_api: project_pod
    ssh_conn,    \* start_project_api: ssh_conn, "none" before it is built
    outcome,     \* start_project_api: how run_commands ended
    command,     \* the command an invocation runs; "none" before it begins
    overlap,     \* a launch_project run began while another was under way
    \* the supervisory script of start_project_api
    spc,         \* the script's position
    trapSet,     \* trap cleanup EXIT has run
    inCleanup,   \* the EXIT trap is running or has run
    last_pid,    \* $last_pid; 0 while unset
    alive,       \* pids of the handler processes that are alive
    spawned,     \* handlers started so far; the last one's pid
    watcher,     \* the inotifywait process
    changed_file,\* $changed_file
    fkPc,        \* position inside force_kill
    fkArg,       \* force_kill's $1
    fkCaller,    \* who called force_kill
    events,      \* file events so far
    unserved,    \* handlers current at a qualifying event not yet restarted
    signals,     \* signals the current force_kill call has sent
    exit_status, \* the status the shell was told to exit with; "none" before
    verified,    \* the pid `ps -p` last reported gone inside force_kill
    pip_log,     \* the pip commands run in the current iteration
    \* a second run of the script on the same pod
    npc,         \* the second script's position; "none" when there is none
    nalive,      \* the second script's handler is alive
    \* the ignore-file loop of the script
    ignoreFile,  \* the characters of .runpodignore; <<"absent">> when there is none
    pos,         \* characters read so far
    line,        \* $line
    atEof,       \* the last read hit the end of the file
    exclude_pattern, \* $exclude_pattern, as its |-separated alternatives
    ppc,         \* position in the loop
    \* the deploy mutation builder
    fields,      \* the keyword arguments supplied to the builder
    document,    \* the mutation document returned, as its tokens
    mpc          \* position of the call

vars == <<config, pods, templates, endpoints, volume, pc, cfg, new_pod,
          environment_variables, project_endpoint_template, deployed_endpoint,
          trace, polls, step, project_pod, ssh_conn, outcome, command,
          overlap, spc, trapSet, inCleanup, last_pid, alive, spawned, watcher,
          changed_file, fkPc, fkArg, fkCaller, events, unserved,
          signals, exit_status, verified, pip_log, npc, nalive,
          ignoreFile, pos, line, atEof, exclude_pattern, ppc,
          fields, document, mpc>>

remoteVars == <<pods, templates, endpoints, volume>>

cliVars == <<config, pods, templates, endpoints, volume, pc, cfg, new_pod,
             environment_variables, project_endpoint_template, deployed_endpoint,
             trace, polls, step, project_pod, ssh_conn, outcome, command,
             overlap>>

startVars == <<project_pod, ssh_conn, outcome>>

scriptVars == <<spc, trapSet, inCleanup, last_pid, alive, spawned, watcher,
                changed_file, fkPc, fkArg, fkCaller, events, unserved,
                signals, exit_status, verified, pip_log, npc, nalive>>

histVars == <<signals, exit_status, verified, pip_log>>

sessionVars == <<npc, nalive>>

parseVars == <<ignoreFile, pos, line, atEof, exclude_pattern, ppc>>

mutationVars == <<fields, document, mpc>>

\* One remote call of an invocation.
Call(op, arg, arg2, env, ok) ==
    [op |-> op, arg |-> arg, arg2 |-> arg2, env |-> env, ok |-> ok]

Log(p, c) == trace' = [trace EXCEPT ![p] = Append(@, c)]

Goto(p, l) == pc' = [pc EXCEPT ![p] = l]

\* ------------------------------------------------------------ collaborators
\* helpers.get_project_pod: the id of a pod tagged with the project uuid
get_project_pod(uuid) ==
    IF \E d \in pods : d.project = uuid
    THEN (CHOOSE d \in pods : d.project = uuid).id
    ELSE Null

\* runpod.get_pod: the remote service's descriptor of pod `id`
get_pod(id) ==
    LET d == CHOOSE x \in pods : x.id = id
    IN  [id |-> d.id, desiredStatus |-> d.desiredStatus, runtime |-> d.runtime]

\* A remote call or remote command that fails raises in the caller.
Raised == "failed"

\* --------------------------------------------------------- launch_project
load_project_config(p) == cfg' = [cfg EXCEPT ![p] = config]

\* mutant: the existence test inverted
PodAlreadyLaunched_Inverted(found) == found = Null

\* if get_project_pod(config['project']['uuid']):
PodAlreadyLaunched(found) == found # Null

\* environment_variables of launch_project
LaunchEnv(c) ==
    [k \in {ProjectIdKey} \cup DOMAIN c.env_vars |->
        IF k # ProjectIdKey THEN c.env_vars[k] ELSE c.uuid]

\* mutant: the create attempt is made again when it yields no pod
AfterUnavailable_Retry == "lp_create"

\* if new_pod is None: print(...); return
AfterUnavailable == "gpu_unavailable"

\* mutant: the loop condition never becomes false
PodOnline_Never(d) == FALSE

\* mutant: the loop condition joined with `and`
PodOnline_Either(d) == ~(d.desiredStatus # "RUNNING" /\ d.runtime = Null)

\* the loop condition's negation: the pod is online
PodOnline(d) == ~(d.desiredStatus # "RUNNING" \/ d.runtime = Null)

\* mutant: the virtual environment is created before the files are copied
BootstrapSteps_VenvBeforeCopy ==
    <<"mkdir", "venv", "rsync", "activate", "cd", "pip_upgrade", "pip_install">>

\* project_path_uuid, project_path and venv_path, as their components
project_path_uuid(c) == <<c.volume_mount_path, c.uuid>>

project_path(c) == project_path_uuid(c) \o <<c.name>>

venv_path(c) == project_path_uuid(c) \o <<"venv">>

\* the remote path each bootstrap step works on
StepTarget(c, s) ==
    CASE s = "mkdir" -> project_path(c)
      [] s = "rsync" -> project_path_uuid(c)
      [] s \in {"venv", "activate"} -> venv_path(c)
      [] OTHER -> project_path(c)

\* The remote work after the pod is online, in program order: the mkdir
\* batch, the rsync, then the venv command and the && chain of the second
\* command of the last batch.
BootstrapSteps ==
    <<"mkdir", "rsync", "venv", "activate", "cd", "pip_upgrade", "pip_install">>

\* positions of a launch_project run that has begun and not ended
LaunchActive == {"lp_check", "lp_create", "lp_wait", "lp_boot"}

LaunchInvoke(p) ==
    /\ pc[p] = "idle"
    /\ load_project_config(p)
    /\ Goto(p, "lp_check")
    /\ command' = [command EXCEPT ![p] = "launch_project"]
    /\ overlap' = (overlap \/ \E q \in Procs \ {p} : pc[q] \in LaunchActive)
    /\ UNCHANGED <<scriptVars, parseVars, mutationVars,
                   startVars, config, remoteVars, new_pod,
                   environment_variables, project_endpoint_template, deployed_endpoint,
                   trace, polls, step>>

LaunchCheck(p) ==
    /\ pc[p] = "lp_check"
    /\ LET found == get_project_pod(cfg[p].uuid)
       IN  /\ Log(p, Call("get_project_pod", cfg[p].uuid, found, EmptyEnv, TRUE))
           /\ IF PodAlreadyLaunched(found)
              THEN /\ Goto(p, "already_launched")
                   /\ UNCHANGED environment_variables
              ELSE /\ Goto(p, "lp_create")
                   /\ environment_variables' =
                         [environment_variables EXCEPT ![p] = LaunchEnv(cfg[p])]
    /\ UNCHANGED <<scriptVars, parseVars, mutationVars,
                   startVars, command, overlap, config, remoteVars, cfg,
                   new_pod,
                   project_endpoint_template, deployed_endpoint, polls, step>>

\* new_pod = attempt_pod_launch(config, environment_variables)
LaunchCreate(p) ==
    /\ pc[p] = "lp_create"
    /\ \/ \E st \in {"PENDING", "RUNNING"} :
            LET id == PodNames[Cardinality({d \in pods : d.id # OldPod}) + 1]
            IN  /\ pods' = pods \cup
                      {[id |-> id, project |-> cfg[p].uuid, desiredStatus |-> st,
                        runtime |-> Null, env |-> environment_variables[p]]}
                /\ new_pod' = [new_pod EXCEPT ![p] =
                      [id |-> id, desiredStatus |-> st, runtime |-> Null]]
                /\ Log(p, Call("create_pod", cfg[p].uuid, id, environment_variables[p], TRUE))
                /\ Goto(p, "lp_wait")
       \/ /\ new_pod' = [new_pod EXCEPT ![p] = NoPod]
          /\ Log(p, Call("create_pod", cfg[p].uuid, Null, environment_variables[p], FALSE))
          /\ Goto(p, AfterUnavailable)
          /\ UNCHANGED pods
    /\ UNCHANGED <<scriptVars, parseVars, mutationVars,
                   startVars, command, overlap, config, templates, endpoints,
                   volume, cfg,
                   environment_variables, project_endpoint_template, deployed_endpoint,
                   polls, step>>

\* one iteration of the while loop
LaunchPoll(p) ==
    /\ pc[p] = "lp_wait"
    /\ ~PodOnline(new_pod[p])
    /\ polls[p] < MaxPolls
    /\ new_pod' = [new_pod EXCEPT ![p] = get_pod(new_pod[p].id)]
    /\ polls' = [polls EXCEPT ![p] = @ + 1]
    /\ Log(p, Call("get_pod", new_pod[p].id, Null, EmptyEnv, TRUE))
    /\ UNCHANGED <<scriptVars, parseVars, mutationVars,
                   startVars, command, overlap, config, remoteVars, pc, cfg,
                   environment_variables, project_endpoint_template, deployed_endpoint,
                   step>>

\* the same iteration once the model's record of polls is full: the loop
\* itself has no limit, the call is just no longer counted or logged
LaunchPollOn(p) ==
    /\ pc[p] = "lp_wait"
    /\ ~PodOnline(new_pod[p])
    /\ polls[p] = MaxPolls
    /\ new_pod' = [new_pod EXCEPT ![p] = get_pod(new_pod[p].id)]
    /\ UNCHANGED <<scriptVars, parseVars, mutationVars,
                   startVars, command, overlap, config,
                   remoteVars, pc, cfg, environment_variables,
                   project_endpoint_template, deployed_endpoint, trace, polls, step>>

\* the loop ends; ssh_conn = SSHConnection(new_pod['id'])
LaunchSsh(p) ==
    /\ pc[p] = "lp_wait"
    /\ PodOnline(new_pod[p])
    /\ \E ok \in BOOLEAN :
          /\ Log(p, Call("ssh_open", new_pod[p].id, Null, EmptyEnv, ok))
          /\ Goto(p, IF ok THEN "lp_boot" ELSE Raised)
    /\ UNCHANGED <<scriptVars, parseVars, mutationVars,
                   startVars, command, overlap, config, remoteVars, cfg,
                   new_pod,
                   environment_variables, project_endpoint_template, deployed_endpoint,
                   polls, step>>

\* the next remote bootstrap command, which succeeds or fails
LaunchStep(p) ==
    /\ pc[p] = "lp_boot"
    /\ LET s == BootstrapSteps[step[p] + 1]
       IN  \E ok \in BOOLEAN :
             /\ Log(p, Call("run", s, StepTarget(cfg[p], s), EmptyEnv, ok))
             /\ IF ok
                THEN /\ volume' = volume \cup {s}
                     /\ step' = [step EXCEPT ![p] = @ + 1]
                     /\ Goto(p, IF step[p] + 1 = Len(BootstrapSteps)
                                THEN "launched" ELSE "lp_boot")
                ELSE /\ Goto(p, Raised)
                     /\ UNCHANGED <<volume, step>>
    /\ UNCHANGED <<scriptVars, parseVars, mutationVars,
                   startVars, command, overlap, config, pods, templates,
                   endpoints, cfg,
                   new_pod, environment_variables, project_endpoint_template,
                   deployed_endpoint, polls>>

\* The remote service brings a pod up on its own schedule.
PodProgress ==
    /\ \E d \in pods :
          \/ /\ d.desiredStatus = "PENDING"
             /\ pods' = (pods \ {d}) \cup {[d EXCEPT !.desiredStatus = "RUNNING"]}
          \/ /\ d.desiredStatus = "RUNNING"
             /\ d.runtime = Null
             /\ pods' = (pods \ {d}) \cup {[d EXCEPT !.runtime = "rt"]}
    /\ UNCHANGED <<scriptVars, parseVars, mutationVars,
                   startVars, command, overlap, config, templates, endpoints,
                   volume, pc,
                   cfg, new_pod, environment_variables, project_endpoint_template,
                   deployed_endpoint, trace, polls, step>>

\* ------------------------------------------------ create_project_endpoint
\* environment_variables of create_project_endpoint
DeployEnv(c) == [k \in DOMAIN c.env_vars |-> c.env_vars[k]]

\* mutant: the two arguments of create_endpoint exchanged
EndpointRequest_Swapped(p) ==
    [template_id |-> cfg[p].storage_id, network_volume_id |-> project_endpoint_template[p]]

\* the arguments of create_endpoint
EndpointRequest(p) ==
    [template_id |-> project_endpoint_template[p], network_volume_id |-> cfg[p].storage_id]

\* create_template raised: nothing catches it
TemplateFailure(p) ==
    /\ Goto(p, Raised)
    /\ UNCHANGED <<templates, project_endpoint_template>>

\* mutant: the template is deleted again when create_endpoint raises
EndpointFailure_Rollback(p) ==
    /\ trace' = [trace EXCEPT ![p] =
          @ \o <<Call("create_endpoint", project_endpoint_template[p],
                      cfg[p].storage_id, EmptyEnv, FALSE),
                 Call("delete_template", project_endpoint_template[p], Null,
                      EmptyEnv, TRUE)>>]
    /\ templates' = {t \in templates : t.id # project_endpoint_template[p]}
    /\ Goto(p, Raised)
    /\ UNCHANGED <<endpoints, deployed_endpoint>>

\* create_endpoint raised: nothing catches it, nothing is undone
EndpointFailure(p) ==
    /\ Log(p, Call("create_endpoint", EndpointRequest(p).template_id,
                   EndpointRequest(p).network_volume_id, EmptyEnv, FALSE))
    /\ Goto(p, Raised)
    /\ UNCHANGED <<templates, endpoints, deployed_endpoint>>

DeployInvoke(p) ==
    /\ pc[p] = "idle"
    /\ load_project_config(p)
    /\ environment_variables' = [environment_variables EXCEPT ![p] = DeployEnv(config)]
    /\ Goto(p, "dp_template")
    /\ command' = [command EXCEPT ![p] = "create_project_endpoint"]
    /\ UNCHANGED <<scriptVars, parseVars, mutationVars,
                   startVars, overlap, config, remoteVars, new_pod,
                   project_endpoint_template, deployed_endpoint, trace, polls, step>>

\* project_endpoint_template = create_template(...)
DeployTemplate(p) ==
    /\ pc[p] = "dp_template"
    /\ \/ LET id == TemplateNames[Cardinality(templates) + 1]
          IN  /\ templates' = templates \cup
                    {[id |-> id, project |-> cfg[p].uuid, env |-> environment_variables[p]]}
              /\ project_endpoint_template' = [project_endpoint_template EXCEPT ![p] = id]
              /\ Log(p, Call("create_template", cfg[p].uuid, id, environment_variables[p], TRUE))
              /\ Goto(p, "dp_endpoint")
       \/ /\ Log(p, Call("create_template", cfg[p].uuid, Null, environment_variables[p], FALSE))
          /\ TemplateFailure(p)
    /\ UNCHANGED <<scriptVars, parseVars, mutationVars,
                   startVars, command, overlap, config, pods, endpoints, volume,
                   cfg,
                   new_pod, environment_variables, deployed_endpoint, polls, step>>

\* deployed_endpoint = create_endpoint(...); return deployed_endpoint['id']
DeployEndpoint(p) ==
    /\ pc[p] = "dp_endpoint"
    /\ \/ LET id == EndpointNames[Cardinality(endpoints) + 1]
              rq == EndpointRequest(p)
          IN  /\ endpoints' = endpoints \cup
                    {[id |-> id, template_id |-> rq.template_id,
                      network_volume_id |-> rq.network_volume_id]}
              /\ deployed_endpoint' = [deployed_endpoint EXCEPT ![p] = id]
              /\ Log(p, Call("create_endpoint", rq.template_id,
                             rq.network_volume_id, EmptyEnv, TRUE))
              /\ Goto(p, "deployed")
              /\ UNCHANGED templates
       \/ EndpointFailure(p)
    /\ UNCHANGED <<scriptVars, parseVars, mutationVars,
                   startVars, command, overlap, config, pods, volume, cfg,
                   new_pod,
                   environment_variables, project_endpoint_template, polls, step>>

\* ------------------------------------------- start_project_api (local side)
\* how ssh_conn.run_commands(launch_api_server) can end
RunOutcomes == {"returned", "raised", "interrupted"}

\* sync_directory raised: the call is outside the try block
SyncFailure(p) ==
    /\ Goto(p, Raised)
    /\ UNCHANGED ssh_conn

StartInvoke(p) ==
    /\ pc[p] = "idle"
    /\ load_project_config(p)
    /\ Goto(p, "sp_check")
    /\ command' = [command EXCEPT ![p] = "start_project_api"]
    /\ UNCHANGED <<scriptVars, parseVars, mutationVars,
                   startVars, overlap, config, remoteVars,
                   new_pod, environment_variables, project_endpoint_template,
                   deployed_endpoint, trace, polls, step>>

\* project_pod = get_project_pod(...); if project_pod is None: raise
StartCheck(p) ==
    /\ pc[p] = "sp_check"
    /\ LET found == get_project_pod(cfg[p].uuid)
       IN  /\ Log(p, Call("get_project_pod", cfg[p].uuid, found, EmptyEnv, TRUE))
           /\ project_pod' = [project_pod EXCEPT ![p] = found]
           /\ Goto(p, IF found = Null THEN "click_exception" ELSE "sp_ssh")
    /\ UNCHANGED <<scriptVars, parseVars, mutationVars,
                   ssh_conn, outcome, command, overlap, config,
                   remoteVars, cfg, new_pod, environment_variables,
                   project_endpoint_template, deployed_endpoint, polls, step>>

\* ssh_conn = SSHConnection(project_pod)
StartSsh(p) ==
    /\ pc[p] = "sp_ssh"
    /\ \E ok \in BOOLEAN :
          /\ Log(p, Call("ssh_open", project_pod[p], Null, EmptyEnv, ok))
          /\ ssh_conn' = [ssh_conn EXCEPT ![p] = IF ok THEN "open" ELSE @]
          /\ Goto(p, IF ok THEN "sp_sync" ELSE Raised)
    /\ UNCHANGED <<scriptVars, parseVars, mutationVars,
                   project_pod, outcome, command, overlap, config,
                   remoteVars, cfg, new_pod, environment_variables,
                   project_endpoint_template, deployed_endpoint, polls, step>>

\* sync_directory(ssh_conn, os.getcwd(), ...)
StartSync(p) ==
    /\ pc[p] = "sp_sync"
    /\ \/ /\ Log(p, Call("sync_directory", project_pod[p], Null, EmptyEnv, TRUE))
          /\ Goto(p, "sp_run")
          /\ UNCHANGED ssh_conn
       \/ /\ Log(p, Call("sync_directory", project_pod[p], Null, EmptyEnv, FALSE))
          /\ SyncFailure(p)
    /\ UNCHANGED <<scriptVars, parseVars, mutationVars,
                   project_pod, outcome, command, overlap, config,
                   remoteVars, cfg, new_pod, environment_variables,
                   project_endpoint_template, deployed_endpoint, polls, step>>

\* try: ssh_conn.run_commands(launch_api_server).  The script exits 1 when
\* the virtual environment cannot be activated.
StartRun(p) ==
    /\ pc[p] = "sp_run"
    /\ \E o \in RunOutcomes :
          /\ ("venv" \notin volume => o # "returned")
          /\ outcome' = [outcome EXCEPT ![p] = o]
          /\ Log(p, Call("run_commands", project_pod[p], Null, EmptyEnv,
                         o = "returned"))
    /\ Goto(p, "sp_finally")
    /\ UNCHANGED <<scriptVars, parseVars, mutationVars,
                   project_pod, ssh_conn, command, overlap, config,
                   remoteVars, cfg, new_pod, environment_variables,
                   project_endpoint_template, deployed_endpoint, polls, step>>

\* finally: ssh_conn.close()
StartClose(p) ==
    /\ pc[p] = "sp_finally"
    /\ ssh_conn' = [ssh_conn EXCEPT ![p] = "closed"]
    /\ Log(p, Call("ssh_close", project_pod[p], Null, EmptyEnv, TRUE))
    /\ Goto(p, CASE outcome[p] = "returned" -> "start_returned"
                 [] outcome[p] = "interrupted" -> "interrupted"
                 [] OTHER -> Raised)
    /\ UNCHANGED <<scriptVars, parseVars, mutationVars,
                   project_pod, outcome, command, overlap, config,
                   remoteVars, cfg, new_pod, environment_variables,
                   project_endpoint_template, deployed_endpoint, polls, step>>

\* ------------------------------------- start_project_api: the remote script
\* Paths a file event can name.  The last one matches the exclude pattern.
HandlerFile == "src/handler.py"
RequirementsFile == "builder/requirements.txt"
CacheFile == "src/__pycache__/handler.pyc"
EventPaths == {HandlerFile, RequirementsFile, CacheFile}

\* inotifywait --exclude "$exclude_pattern": the events it reports
Qualifies(path) == path \notin {CacheFile}

\* mutant: every change counts as a requirements change
NamesRequirements_Always(path) == TRUE

\* [[ $changed_file == *"requirements"* ]]
NamesRequirements(path) == path = RequirementsFile

ScriptRunning == spc \notin {"none", "cleanup", "exited"}

\* function cleanup: force_kill $last_pid, run by the EXIT trap
EnterCleanup ==
    /\ inCleanup' = TRUE
    /\ spc' = "cleanup"
    /\ fkPc' = "term"
    /\ fkArg' = last_pid
    /\ fkCaller' = "cleanup"
    /\ signals' = <<>>

\* The shell exits: the EXIT trap runs once, if it has been set.
ExitScript(code) ==
    /\ exit_status' = code
    /\ IF trapSet /\ ~inCleanup
       THEN EnterCleanup
       ELSE /\ spc' = "exited"
            /\ fkPc' = "none"
            /\ UNCHANGED <<inCleanup, fkArg, fkCaller, signals>>

\* python {handler_path} ... &
SpawnHandler ==
    /\ spawned' = spawned + 1
    /\ alive' = alive \cup {spawned + 1}

\* pkill inotify
S_Pkill ==
    /\ spc = "pkill"
    /\ spc' = "trap"
    /\ UNCHANGED <<trapSet, inCleanup, last_pid, alive, spawned, watcher, changed_file,
                   fkPc, fkArg, fkCaller, events, unserved>>
    /\ UNCHANGED <<cliVars, parseVars, sessionVars, mutationVars>>
    /\ UNCHANGED histVars

\* trap cleanup EXIT
S_Trap ==
    /\ spc = "trap"
    /\ trapSet' = TRUE
    /\ spc' = "activate"
    /\ UNCHANGED <<inCleanup, last_pid, alive, spawned, watcher, changed_file,
                   fkPc, fkArg, fkCaller, events, unserved>>
    /\ UNCHANGED <<cliVars, parseVars, sessionVars, mutationVars>>
    /\ UNCHANGED histVars

\* if source .../venv/bin/activate ... else exit 1
S_Activate ==
    /\ spc = "activate"
    /\ \/ /\ spc' = "cd"
          /\ UNCHANGED <<inCleanup, fkPc, fkArg, fkCaller, signals, exit_status>>
       \/ ExitScript("1")
    /\ UNCHANGED <<trapSet, last_pid, alive, spawned, watcher, changed_file, events,
                   unserved>>
    /\ UNCHANGED <<cliVars, parseVars, sessionVars, mutationVars>>
    /\ UNCHANGED <<verified, pip_log>>

\* if cd ... else exit 1
S_Cd ==
    /\ spc = "cd"
    /\ \/ /\ spc' = "ignore"
          /\ UNCHANGED <<inCleanup, fkPc, fkArg, fkCaller, signals, exit_status>>
       \/ ExitScript("1")
    /\ UNCHANGED <<trapSet, last_pid, alive, spawned, watcher, changed_file, events,
                   unserved>>
    /\ UNCHANGED <<cliVars, parseVars, sessionVars, mutationVars>>
    /\ UNCHANGED <<verified, pip_log>>

\* the exclude_pattern block
S_Ignore ==
    /\ spc = "ignore"
    /\ spc' = "start"
    /\ UNCHANGED <<trapSet, inCleanup, last_pid, alive, spawned, watcher, changed_file,
                   fkPc, fkArg, fkCaller, events, unserved>>
    /\ UNCHANGED <<cliVars, parseVars, sessionVars, mutationVars>>
    /\ UNCHANGED histVars

\* python ... &   (before the loop)
S_Start ==
    /\ spc = "start"
    /\ SpawnHandler
    /\ spc' = "setpid"
    /\ UNCHANGED <<trapSet, inCleanup, last_pid, watcher, changed_file,
                   fkPc, fkArg, fkCaller, events, unserved>>
    /\ UNCHANGED <<cliVars, parseVars, sessionVars, mutationVars>>
    /\ UNCHANGED histVars

\* last_pid=$!   (before the loop, and at the end of an iteration)
S_SetPid ==
    /\ spc \in {"setpid", "setpid_loop"}
    /\ last_pid' = spawned
    /\ spc' = "watch"
    /\ UNCHANGED <<trapSet, inCleanup, alive, spawned, watcher, changed_file,
                   fkPc, fkArg, fkCaller, events, unserved>>
    /\ UNCHANGED <<cliVars, parseVars, sessionVars, mutationVars>>
    /\ UNCHANGED histVars

\* inotifywait starts and sets up its watches
S_Watch ==
    /\ spc = "watch"
    /\ watcher' = "armed"
    /\ spc' = "waiting"
    /\ UNCHANGED <<trapSet, inCleanup, last_pid, alive, spawned, changed_file,
                   fkPc, fkArg, fkCaller, events, unserved>>
    /\ UNCHANGED <<cliVars, parseVars, sessionVars, mutationVars>>
    /\ UNCHANGED histVars

\* inotifywait printed a path: changed_file is set, force_kill $last_pid is called
S_Detected ==
    /\ spc = "waiting"
    /\ watcher \in EventPaths
    /\ changed_file' = watcher
    /\ watcher' = "off"
    /\ spc' = "force_kill"
    /\ fkPc' = "term"
    /\ fkArg' = last_pid
    /\ fkCaller' = "loop"
    /\ signals' = <<>>
    /\ pip_log' = <<>>
    /\ UNCHANGED <<trapSet, inCleanup, last_pid, alive, spawned, events, unserved>>
    /\ UNCHANGED <<cliVars, parseVars, sessionVars, mutationVars>>
    /\ UNCHANGED <<exit_status, verified>>

\* inotifywait failed: echo "Failed to detect changes."; exit 1
S_WatchFailed ==
    /\ spc = "waiting"
    /\ watcher = "killed"
    /\ watcher' = "off"
    /\ ExitScript("1")
    /\ UNCHANGED <<trapSet, last_pid, alive, spawned, changed_file, events, unserved>>
    /\ UNCHANGED <<cliVars, parseVars, sessionVars, mutationVars>>
    /\ UNCHANGED <<verified, pip_log>>

\* force_kill returns to its caller; after cleanup the shell is gone
FkReturn ==
    /\ fkPc' = "none"
    /\ spc' = IF fkCaller = "loop" THEN "reqcheck" ELSE "exited"
    /\ UNCHANGED <<inCleanup, fkArg, fkCaller>>

\* mutant: a failed kill -9 is ignored and force_kill returns
KillFailed_Returns ==
    /\ FkReturn
    /\ UNCHANGED <<signals, exit_status>>

\* echo "Failed to kill process $1"; exit 1
KillFailed == ExitScript("1")

\* kill $1 2>/dev/null; sleep 1   -- the process may or may not be gone by then
FK_Term ==
    /\ fkPc = "term"
    /\ \E dies \in BOOLEAN : alive' = IF dies THEN alive \ {fkArg} ELSE alive
    /\ signals' = Append(signals, "TERM")
    /\ fkPc' = "check1"
    /\ UNCHANGED <<spc, trapSet, inCleanup, last_pid, spawned, watcher, changed_file,
                   fkArg, fkCaller, events, unserved>>
    /\ UNCHANGED <<cliVars, parseVars, sessionVars, mutationVars>>
    /\ UNCHANGED <<exit_status, verified, pip_log>>

\* mutant: kill -9 is sent whatever ps -p reports
FK_Check1_AlwaysKill ==
    /\ fkPc = "check1"
    /\ fkPc' = "kill9"
    /\ UNCHANGED <<spc, trapSet, inCleanup, last_pid, alive, spawned, watcher,
                   changed_file, fkArg, fkCaller, events, unserved, histVars,
                   sessionVars, cliVars, parseVars, mutationVars>>

\* if ps -p $1 > /dev/null
FK_Check1 ==
    /\ fkPc = "check1"
    /\ IF fkArg \in alive
       THEN /\ fkPc' = "kill9"
            /\ UNCHANGED <<spc, inCleanup, fkArg, fkCaller, verified>>
       ELSE /\ FkReturn
            /\ verified' = fkArg
    /\ UNCHANGED <<trapSet, last_pid, alive, spawned, watcher, changed_file, events,
                   unserved>>
    /\ UNCHANGED <<cliVars, parseVars, sessionVars, mutationVars>>
    /\ UNCHANGED <<signals, exit_status, pip_log>>

\* kill -9 $1 2>/dev/null; sleep 1
FK_Kill9 ==
    /\ fkPc = "kill9"
    /\ \E dies \in BOOLEAN : alive' = IF dies THEN alive \ {fkArg} ELSE alive
    /\ signals' = Append(signals, "KILL")
    /\ fkPc' = "check2"
    /\ UNCHANGED <<spc, trapSet, inCleanup, last_pid, spawned, watcher, changed_file,
                   fkArg, fkCaller, events, unserved>>
    /\ UNCHANGED <<cliVars, parseVars, sessionVars, mutationVars>>
    /\ UNCHANGED <<exit_status, verified, pip_log>>

\* if ps -p $1 > /dev/null; then ... exit 1
FK_Check2 ==
    /\ fkPc = "check2"
    /\ IF fkArg \in alive
       THEN /\ KillFailed
            /\ UNCHANGED verified
       ELSE /\ FkReturn
            /\ verified' = fkArg
            /\ UNCHANGED <<signals, exit_status>>
    /\ UNCHANGED <<trapSet, last_pid, alive, spawned, watcher, changed_file, events,
                   unserved>>
    /\ UNCHANGED <<cliVars, parseVars, sessionVars, mutationVars>>
    /\ UNCHANGED pip_log

\* if [[ $changed_file == *"requirements"* ]]
S_ReqCheck ==
    /\ spc = "reqcheck"
    /\ spc' = IF NamesRequirements(changed_file) THEN "pip" ELSE "restart"
    /\ UNCHANGED <<trapSet, inCleanup, last_pid, alive, spawned, watcher, changed_file,
                   fkPc, fkArg, fkCaller, events, unserved>>
    /\ UNCHANGED <<cliVars, parseVars, sessionVars, mutationVars>>
    /\ UNCHANGED histVars

\* python -m pip install --upgrade pip && python -m pip install -r ...
S_Pip ==
    /\ spc = "pip"
    /\ \E upgraded \in BOOLEAN :
          pip_log' = IF upgraded THEN <<"upgrade", "install">> ELSE <<"upgrade">>
    /\ spc' = "restart"
    /\ UNCHANGED <<trapSet, inCleanup, last_pid, alive, spawned, watcher, changed_file,
                   fkPc, fkArg, fkCaller, events, unserved>>
    /\ UNCHANGED <<cliVars, parseVars, sessionVars, mutationVars>>
    /\ UNCHANGED <<signals, exit_status, verified>>

\* python ... &   (in the loop)
S_Restart ==
    /\ spc = "restart"
    /\ SpawnHandler
    /\ spc' = "setpid_loop"
    /\ unserved' = unserved \cap alive
    /\ UNCHANGED <<trapSet, inCleanup, last_pid, watcher, changed_file,
                   fkPc, fkArg, fkCaller, events>>
    /\ UNCHANGED <<cliVars, parseVars, sessionVars, mutationVars>>
    /\ UNCHANGED histVars

\* The script's own steps.
ScriptStep ==
    \/ S_Pkill \/ S_Trap \/ S_Activate \/ S_Cd \/ S_Ignore \/ S_Start \/ S_SetPid
    \/ S_Watch \/ S_Detected \/ S_WatchFailed
    \/ FK_Term \/ FK_Check1 \/ FK_Kill9 \/ FK_Check2
    \/ S_ReqCheck \/ S_Pip \/ S_Restart

\* A file under the project directory is modified, created or deleted.
FileEvent ==
    /\ spc \notin {"none", "exited"}
    /\ events < MaxEvents
    /\ events' = events + 1
    /\ \E path \in EventPaths :
          /\ watcher' = IF watcher = "armed" /\ Qualifies(path) THEN path ELSE watcher
          /\ unserved' = IF Qualifies(path) /\ ScriptRunning /\ spawned >= 1
                         THEN unserved \cup {spawned} ELSE unserved
    /\ UNCHANGED <<spc, trapSet, inCleanup, last_pid, alive, spawned, changed_file,
                   fkPc, fkArg, fkCaller>>
    /\ UNCHANGED <<cliVars, parseVars, sessionVars, mutationVars>>
    /\ UNCHANGED histVars

\* inotifywait is killed from outside (another session's pkill inotify).
WatcherKilled ==
    /\ spc = "waiting"
    /\ watcher = "armed"
    /\ watcher' = "killed"
    /\ UNCHANGED <<spc, trapSet, inCleanup, last_pid, alive, spawned, changed_file,
                   fkPc, fkArg, fkCaller, events, unserved>>
    /\ UNCHANGED <<cliVars, parseVars, sessionVars, mutationVars>>
    /\ UNCHANGED histVars

\* A handler process ends on its own.
HandlerExits ==
    /\ spc \notin {"none", "exited"}
    /\ \E h \in alive : alive' = alive \ {h}
    /\ UNCHANGED <<spc, trapSet, inCleanup, last_pid, spawned, watcher, changed_file,
                   fkPc, fkArg, fkCaller, events, unserved>>
    /\ UNCHANGED <<cliVars, parseVars, sessionVars, mutationVars>>
    /\ UNCHANGED histVars

\* The shell is told to terminate between two of its commands (the session
\* is closed, a signal arrives).
Terminated ==
    /\ ScriptRunning
    /\ ExitScript("signal")
    /\ watcher' = "off"
    /\ UNCHANGED <<trapSet, last_pid, alive, spawned, changed_file, events, unserved>>
    /\ UNCHANGED <<cliVars, parseVars, sessionVars, mutationVars>>
    /\ UNCHANGED <<verified, pip_log>>

\* ---- a second run of the script on the same pod, up to its first handler
\* the second script's own state is left as it is
NewKeeps ==
    UNCHANGED <<spc, trapSet, inCleanup, last_pid, alive, spawned, changed_file,
                fkPc, fkArg, fkCaller, events, unserved, histVars, cliVars,
                parseVars, mutationVars>>

\* pkill inotify: ends the first script's inotifywait if one is running
N_Pkill ==
    /\ npc = "pkill"
    /\ ScriptRunning
    /\ watcher' = IF spc = "waiting" /\ watcher = "armed" THEN "killed" ELSE watcher
    /\ npc' = "trap"
    /\ UNCHANGED nalive
    /\ NewKeeps

\* trap cleanup EXIT
N_Trap ==
    /\ npc = "trap"
    /\ npc' = "activate"
    /\ UNCHANGED <<nalive, watcher>>
    /\ NewKeeps

\* if source .../venv/bin/activate ... else exit 1
N_Activate ==
    /\ npc = "activate"
    /\ \E ok \in BOOLEAN : npc' = IF ok THEN "cd" ELSE "exited"
    /\ UNCHANGED <<nalive, watcher>>
    /\ NewKeeps

\* if cd ... else exit 1
N_Cd ==
    /\ npc = "cd"
    /\ \E ok \in BOOLEAN : npc' = IF ok THEN "ignore" ELSE "exited"
    /\ UNCHANGED <<nalive, watcher>>
    /\ NewKeeps

\* the exclude_pattern block
N_Ignore ==
    /\ npc = "ignore"
    /\ npc' = "start"
    /\ UNCHANGED <<nalive, watcher>>
    /\ NewKeeps

\* python {handler_path} ... &   (the second script's first handler)
N_Start ==
    /\ npc = "start"
    /\ nalive' = TRUE
    /\ npc' = "started"
    /\ UNCHANGED watcher
    /\ NewKeeps

NewStep == N_Pkill \/ N_Trap \/ N_Activate \/ N_Cd \/ N_Ignore \/ N_Start

ScriptStart ==
    /\ spc = "pkill"
    /\ trapSet = FALSE
    /\ inCleanup = FALSE
    /\ last_pid = 0
    /\ alive = {}
    /\ spawned = 0
    /\ watcher = "off"
    /\ changed_file = "none"
    /\ fkPc = "none"
    /\ fkArg = 0
    /\ fkCaller = "none"
    /\ events = 0
    /\ unserved = {}
    /\ signals = <<>>
    /\ exit_status = "none"
    /\ verified = 0
    /\ pip_log = <<>>

\* no script is run
ScriptIdle ==
    /\ spc = "none"
    /\ trapSet = FALSE
    /\ inCleanup = FALSE
    /\ last_pid = 0
    /\ alive = {}
    /\ spawned = 0
    /\ watcher = "off"
    /\ changed_file = "none"
    /\ fkPc = "none"
    /\ fkArg = 0
    /\ fkCaller = "none"
    /\ events = 0
    /\ unserved = {}
    /\ signals = <<>>
    /\ exit_status = "none"
    /\ verified = 0
    /\ pip_log = <<>>
    /\ npc = "none"
    /\ nalive = FALSE

\* --------------------------- start_project_api: the .runpodignore loop
\* The characters an ignore file is made of.
Newline == "\n"
Space == " "
FileChars == {"a", "#", Space, Newline}

\* [[ -f .runpodignore ]] fails
AbsentFile == <<"absent">>

IgnoreFiles == UNION { [1..n -> FileChars] : n \in 0..MaxFileLen }

\* exclude_pattern='(__pycache__|\.pyc$)'
BasePattern == <<"(__pycache__|\\.pyc$)">>

\* IFS= read -r line, from offset `at` of file f: the characters up to the
\* next newline; status 0 when a newline ended them, 1 at the end of the file.
ReadLine(f, at) ==
    LET nls == {i \in (at + 1)..Len(f) : f[i] = Newline}
    IN  IF nls # {}
        THEN LET nl == CHOOSE i \in nls : \A j \in nls : i <= j
             IN  [line |-> SubSeq(f, at + 1, nl - 1), pos |-> nl, status |-> 0]
        ELSE [line |-> SubSeq(f, at + 1, Len(f)), pos |-> Len(f), status |-> 1]

\* tr -d '[:space:]'
DeleteSpace(l) == SelectSeq(l, LAMBDA c : c \notin {Space, Newline})

\* [[ "$line" =~ ^#.*$ || -z "$line" ]]
SkipLine(l) == (l # <<>> /\ l[1] = "#") \/ l = <<>>

\* "|(${line})"
Fragment(l) == <<"(">> \o l \o <<")">>

\* exclude_pattern=...; if [[ -f .runpodignore ]]
P_Begin ==
    /\ ppc = "begin"
    /\ exclude_pattern' = <<BasePattern>>
    /\ ppc' = IF ignoreFile # AbsentFile THEN "read" ELSE "done"
    /\ UNCHANGED <<ignoreFile, pos, line, atEof>>
    /\ UNCHANGED <<cliVars, scriptVars, mutationVars>>

\* while IFS= read -r line
P_Read ==
    /\ ppc = "read"
    /\ LET r == ReadLine(ignoreFile, pos)
       IN  /\ line' = r.line
           /\ pos' = r.pos
           /\ atEof' = (r.status # 0)
           /\ ppc' = IF r.status = 0 THEN "strip" ELSE "done"
    /\ UNCHANGED <<ignoreFile, exclude_pattern>>
    /\ UNCHANGED <<cliVars, scriptVars, mutationVars>>

\* line=$(echo "$line" | tr -d '[:space:]')
P_Strip ==
    /\ ppc = "strip"
    /\ line' = DeleteSpace(line)
    /\ ppc' = "filter"
    /\ UNCHANGED <<ignoreFile, pos, atEof, exclude_pattern>>
    /\ UNCHANGED <<cliVars, scriptVars, mutationVars>>

\* [[ ... ]] && continue
P_Filter ==
    /\ ppc = "filter"
    /\ ppc' = IF SkipLine(line) THEN "read" ELSE "append"
    /\ UNCHANGED <<ignoreFile, pos, line, atEof, exclude_pattern>>
    /\ UNCHANGED <<cliVars, scriptVars, mutationVars>>

\* exclude_pattern="${exclude_pattern}|(${line})"
P_Append ==
    /\ ppc = "append"
    /\ exclude_pattern' = Append(exclude_pattern, Fragment(line))
    /\ ppc' = "read"
    /\ UNCHANGED <<ignoreFile, pos, line, atEof>>
    /\ UNCHANGED <<cliVars, scriptVars, mutationVars>>

ParseStart ==
    /\ ignoreFile \in IgnoreFiles \cup {AbsentFile}
    /\ pos = 0
    /\ line = <<>>
    /\ atEof = FALSE
    /\ exclude_pattern = <<>>
    /\ ppc = "begin"

\* the loop is not run
ParseIdle ==
    /\ ignoreFile = AbsentFile
    /\ pos = 0
    /\ line = <<>>
    /\ atEof = FALSE
    /\ exclude_pattern = <<>>
    /\ ppc = "none"

\* ------------------------------------------- the deploy mutation builder
\* generate_pod_deployment_mutation, as the specification describes it.
RequiredFields == {"name", "image_name", "container_disk_in_gb", "cloud_type"}

OptionalFields == {"gpu_count", "ports", "volume_in_gb"}

\* the order in which the builder writes the fields
FieldOrder ==
    <<"name", "image_name", "cloud_type", "container_disk_in_gb", "gpu_count",
      "ports", "volume_in_gb">>

\* values a caller may pass, as they are written in the document
FieldValues ==
    [name |-> {"t"}, image_name |-> {"img"}, cloud_type |-> {"c"},
     container_disk_in_gb |-> {"10"}, gpu_count |-> {"1", "2"},
     ports |-> {"8080"}, volume_in_gb |-> {"100"}]

\* every set of keyword arguments: each field absent or given one value
FieldSets ==
    UNION { { fs \in [d -> UNION {FieldValues[f] : f \in d}] :
                \A f \in d : fs[f] \in FieldValues[f] } :
            d \in SUBSET (RequiredFields \cup OptionalFields) }

\* optional fields with a defined default: gpu_count defaults to 1
Defaults == [gpu_count |-> "1"]

\* mutant: only the name is required
MissingRequired_NameOnly(fs) == "name" \notin DOMAIN fs

\* a required field is absent
MissingRequired(fs) == \E f \in RequiredFields : f \notin DOMAIN fs

\* mutant: an optional field that was not supplied is written as null
Effective_WithNulls(fs) ==
    [f \in RequiredFields \cup OptionalFields |->
        IF f \in DOMAIN fs THEN fs[f]
        ELSE IF f \in DOMAIN Defaults THEN Defaults[f] ELSE "null"]

\* the fields written: the supplied ones, and defaults for unset optional
\* fields that have one; the other unset fields are left out
Effective(fs) ==
    [f \in DOMAIN fs \cup DOMAIN Defaults |->
        IF f \in DOMAIN fs THEN fs[f] ELSE Defaults[f]]

RECURSIVE Entries(_, _)
\* the input fields of eff, from position i of FieldOrder on
Entries(eff, i) ==
    IF i > Len(FieldOrder) THEN <<>>
    ELSE LET f == FieldOrder[i]
         IN  (IF f \in DOMAIN eff THEN <<f, ":", eff[f], ",">> ELSE <<>>)
             \o Entries(eff, i + 1)

\* the mutation document
Document(fs) ==
    <<"mutation", "{", "podFindAndDeployOnDemand", "(", "input", ":", "{">>
    \o Entries(Effective(fs), 1)
    \o <<"}", ")", "{", "id", "}", "}">>

\* the builder checks its arguments
M_Validate ==
    /\ mpc = "call"
    /\ mpc' = IF MissingRequired(fields) THEN "validation_error" ELSE "build"
    /\ UNCHANGED <<fields, document>>
    /\ UNCHANGED <<cliVars, scriptVars, parseVars>>

\* the builder returns the document
M_Build ==
    /\ mpc = "build"
    /\ document' = Document(fields)
    /\ mpc' = "returned"
    /\ UNCHANGED fields
    /\ UNCHANGED <<cliVars, scriptVars, parseVars>>

MutationStart ==
    /\ fields \in FieldSets
    /\ document = <<>>
    /\ mpc = "call"

\* the builder is not called
MutationIdle ==
    /\ fields = <<>>
    /\ document = <<>>
    /\ mpc = "none"

\* ------------------------------------------------------------ specification
\* A pod of an earlier, completed launch of this project.
EarlierPod(c) ==
    [id |-> OldPod, project |-> c.uuid, desiredStatus |-> "RUNNING",
     runtime |-> "rt", env |-> LaunchEnv(c)]

\* the project commands are not run: the config create_new_project wrote,
\* the pod and the volume a completed launch left
CliIdle ==
    /\ config = [uuid |-> ProjectUuid, name |-> "proj", storage_id |-> "vol1",
                 volume_mount_path |-> "/runpod-volume",
                 env_vars |-> [k \in {ProjectIdKey} |-> ProjectUuid]]
    /\ pods = {EarlierPod(config)}
    /\ volume = {BootstrapSteps[i] : i \in 1..Len(BootstrapSteps)}
    /\ templates = {}
    /\ endpoints = {}
    /\ pc = [p \in Procs |-> "idle"]
    /\ cfg = [p \in Procs |-> config]
    /\ new_pod = [p \in Procs |-> NoPod]
    /\ environment_variables = [p \in Procs |-> EmptyEnv]
    /\ project_endpoint_template = [p \in Procs |-> Null]
    /\ deployed_endpoint = [p \in Procs |-> Null]
    /\ trace = [p \in Procs |-> <<>>]
    /\ polls = [p \in Procs |-> 0]
    /\ step = [p \in Procs |-> 0]
    /\ project_pod = [p \in Procs |-> Null]
    /\ ssh_conn = [p \in Procs |-> "none"]
    /\ outcome = [p \in Procs |-> "none"]
    /\ command = [p \in Procs |-> "none"]
    /\ overlap = FALSE

CliInit ==
    /\ config \in [uuid : {ProjectUuid}, name : {"proj"},
                   storage_id : {"vol1", "vol2"},
                   volume_mount_path : {"/runpod-volume"},
                   env_vars : EnvChoices]
    /\ \/ /\ pods = {}
          /\ volume = {}
       \/ /\ pods = {EarlierPod(config)}
          /\ volume = {BootstrapSteps[i] : i \in 1..Len(BootstrapSteps)}
    /\ templates = {}
    /\ endpoints = {}
    /\ pc = [p \in Procs |-> "idle"]
    /\ cfg = [p \in Procs |-> config]
    /\ new_pod = [p \in Procs |-> NoPod]
    /\ environment_variables = [p \in Procs |-> EmptyEnv]
    /\ project_endpoint_template = [p \in Procs |-> Null]
    /\ deployed_endpoint = [p \in Procs |-> Null]
    /\ trace = [p \in Procs |-> <<>>]
    /\ polls = [p \in Procs |-> 0]
    /\ step = [p \in Procs |-> 0]
    /\ project_pod = [p \in Procs |-> Null]
    /\ ssh_conn = [p \in Procs |-> "none"]
    /\ outcome = [p \in Procs |-> "none"]
    /\ command = [p \in Procs |-> "none"]
    /\ overlap = FALSE

Init == CliInit /\ ScriptIdle /\ ParseIdle /\ MutationIdle

Next ==
    \/ \E p \in Procs : LaunchInvoke(p)
    \/ \E p \in Procs : LaunchCheck(p)
    \/ \E p \in Procs : LaunchCreate(p)
    \/ \E p \in Procs : LaunchPoll(p)
    \/ \E p \in Procs : LaunchSsh(p)
    \/ \E p \in Procs : LaunchStep(p)
    \/ \E p \in Procs : DeployInvoke(p)
    \/ \E p \in Procs : DeployTemplate(p)
    \/ \E p \in Procs : DeployEndpoint(p)
    \/ \E p \in Procs : StartInvoke(p)
    \/ \E p \in Procs : StartCheck(p)
    \/ \E p \in Procs : StartSsh(p)
    \/ \E p \in Procs : StartSync(p)
    \/ \E p \in Procs : StartRun(p)
    \/ \E p \in Procs : StartClose(p)
    \/ PodProgress

Spec == Init /\ [][Next]_vars

\* launch_project alone, with the polling loop unbounded as in the code.
\* The local process keeps running, so its loop and the statement after it
\* are weakly fair; the remote service owes nothing.
LaunchRun(p) ==
    \/ LaunchInvoke(p)
    \/ LaunchCheck(p)
    \/ LaunchCreate(p)
    \/ LaunchPoll(p)
    \/ LaunchPollOn(p)
    \/ LaunchSsh(p)
    \/ LaunchStep(p)

WaitNext ==
    \/ \E p \in Procs : LaunchRun(p)
    \/ PodProgress

WaitFairness ==
    \A p \in Procs : WF_vars(LaunchPoll(p) \/ LaunchPollOn(p) \/ LaunchSsh(p))

WaitSpec == Init /\ [][WaitNext]_vars /\ WaitFairness

\* One run of the supervisory script on a launched pod, with its
\* environment: file events, the handler ending, the watcher being killed,
\* the shell being terminated.
\* no second run of the script
OneSession ==
    /\ npc = "none"
    /\ nalive = FALSE

ScriptInit == ScriptStart /\ OneSession /\ CliIdle /\ ParseIdle /\ MutationIdle

ScriptNext ==
    \/ S_Pkill \/ S_Trap \/ S_Activate \/ S_Cd \/ S_Ignore \/ S_Start \/ S_SetPid
    \/ S_Watch \/ S_Detected \/ S_WatchFailed
    \/ FK_Term \/ FK_Check1 \/ FK_Kill9 \/ FK_Check2
    \/ S_ReqCheck \/ S_Pip \/ S_Restart
    \/ FileEvent \/ WatcherKilled \/ HandlerExits \/ Terminated

\* The shell runs its next command when it has one; nothing obliges the
\* environment to act.
ScriptSpec == ScriptInit /\ [][ScriptNext]_vars /\ WF_vars(ScriptStep)

\* start_project_api is run again while the script of an earlier run is
\* still running on the pod: both shells run their commands.
SessionsInit ==
    /\ ScriptStart
    /\ npc = "pkill"
    /\ nalive = FALSE
    /\ CliIdle
    /\ ParseIdle
    /\ MutationIdle

SessionsNext ==
    \/ S_Pkill \/ S_Trap \/ S_Activate \/ S_Cd \/ S_Ignore \/ S_Start \/ S_SetPid
    \/ S_Watch \/ S_Detected \/ S_WatchFailed
    \/ FK_Term \/ FK_Check1 \/ FK_Kill9 \/ FK_Check2
    \/ S_ReqCheck \/ S_Pip \/ S_Restart
    \/ FileEvent \/ HandlerExits \/ Terminated
    \/ N_Pkill \/ N_Trap \/ N_Activate \/ N_Cd \/ N_Ignore \/ N_Start

SessionsSpec ==
    SessionsInit /\ [][SessionsNext]_vars /\ WF_vars(ScriptStep) /\ WF_vars(NewStep)

\* The ignore-file loop over every file of at most MaxFileLen characters.
ParseInit == ParseStart /\ CliIdle /\ ScriptIdle /\ MutationIdle

ParseNext == P_Begin \/ P_Read \/ P_Strip \/ P_Filter \/ P_Append

ParseSpec == ParseInit /\ [][ParseNext]_vars

\* One call of the deploy mutation builder.
MutationInit == MutationStart /\ CliIdle /\ ScriptIdle /\ ParseIdle

MutationNext == M_Validate \/ M_Build

MutationSpec == MutationInit /\ [][MutationNext]_vars

\* ------------------------------------------------------------------ claims
Last(s) == s[Len(s)]

Idx(p) == 1..Len(trace[p])

LaunchWork == {"create_pod", "get_pod", "ssh_open", "run"}

\* C1: a launch_project run whose get_project_pod call reported an existing
\* pod has returned through the "already launched" branch and has issued no
\* pod-create call, no poll, no SSH connection and no remote command.
C1_LaunchIdempotent ==
    \A p \in Procs :
        (command[p] = "launch_project" /\ \E i \in Idx(p) : trace[p][i].op = "get_project_pod" /\ trace[p][i].arg2 # Null)
        => /\ pc[p] = "already_launched"
           /\ \A i \in Idx(p) : trace[p][i].op \notin LaunchWork

C1_Witness ==
    \E p \in Procs :
        /\ pc[p] = "already_launched"
        /\ Last(trace[p]).op = "get_project_pod"
        /\ Last(trace[p]).arg2 = OldPod

\* C3: a step of launch_project that opens the SSH connection or issues a
\* remote command is taken only when the last observed descriptor has
\* desiredStatus RUNNING and a non-null runtime; while it has not, the only
\* step a waiting launch_project takes is a get_pod poll of the same pod id.
C3_WaitForReady ==
    [][\A p \in Procs :
          LET ready == new_pod[p].desiredStatus = "RUNNING" /\ new_pod[p].runtime # Null
              moved == trace'[p] # trace[p] \/ pc'[p] # pc[p]
          IN  /\ (/\ command[p] = "launch_project"
                  /\ Len(trace'[p]) = Len(trace[p]) + 1
                  /\ Last(trace'[p]).op \in {"ssh_open", "run"})
                 => ready
              /\ (pc[p] = "lp_wait" /\ ~ready /\ moved)
                 => /\ pc'[p] = "lp_wait"
                    /\ trace'[p] = Append(trace[p],
                          Call("get_pod", new_pod[p].id, Null, EmptyEnv, TRUE))
                    /\ new_pod'[p].id = new_pod[p].id]_vars

C3_Witness ==
    \E p \in Procs :
        /\ polls[p] >= 1
        /\ \E i \in Idx(p) : trace[p][i].op = "ssh_open"
        /\ \E i \in Idx(p) : trace[p][i].op = "run"

\* The bootstrap steps the claim names, in the order it names them.
ClaimedOrder == <<"mkdir", "rsync", "venv", "pip_upgrade", "pip_install">>

\* C4: in every launch_project run the remote commands follow a successful
\* SSH connection; the mkdir is of {volume_mount_path}/{uuid}/{name} and the
\* copy is into {volume_mount_path}/{uuid}; each of mkdir, copy, venv
\* creation, installer upgrade and dependency installation is run only after
\* every step the claim lists before it has run and succeeded; and a failed
\* step is the run's last.
C4_BootstrapOrdered ==
    \A p \in Procs : \A i \in Idx(p) :
        LET e == trace[p][i]
        IN  /\ (e.op = "run")
               => /\ \E j \in 1..(i - 1) : trace[p][j].op = "ssh_open" /\ trace[p][j].ok
                  /\ \A j \in (i + 1)..Len(trace[p]) :
                        ~(trace[p][j].op = "run" /\ trace[p][j].arg = e.arg)
                  /\ e.arg = "mkdir"
                     => e.arg2 = <<config.volume_mount_path, config.uuid, config.name>>
                  /\ e.arg = "rsync"
                     => e.arg2 = <<config.volume_mount_path, config.uuid>>
                  /\ \A r \in 1..Len(ClaimedOrder) :
                        e.arg = ClaimedOrder[r]
                        => \A q \in 1..(r - 1) : \E j \in 1..(i - 1) :
                              /\ trace[p][j].op = "run"
                              /\ trace[p][j].arg = ClaimedOrder[q]
                              /\ trace[p][j].ok
            /\ (e.op \in {"ssh_open", "run"} /\ ~e.ok)
               => (i = Len(trace[p]) /\ pc[p] = "failed")

C4_Witness ==
    \E p \in Procs :
        /\ pc[p] = "failed"
        /\ Last(trace[p]).op = "run"
        /\ Last(trace[p]).arg = "venv"
        /\ \E i \in Idx(p) : trace[p][i].op = "run" /\ trace[p][i].arg = "rsync" /\ trace[p][i].ok

\* C10: a launch_project run whose pod-create attempt yielded no pod has
\* made that one create call only, no get_pod poll, no SSH connection and no
\* remote command, and has returned.
C10_UnavailableAborts ==
    \A p \in Procs :
        (\E i \in Idx(p) : trace[p][i].op = "create_pod" /\ ~trace[p][i].ok)
        => /\ pc[p] = "gpu_unavailable"
           /\ Cardinality({i \in Idx(p) : trace[p][i].op = "create_pod"}) = 1
           /\ \A i \in Idx(p) : trace[p][i].op \notin {"get_pod", "ssh_open", "run"}
           /\ new_pod[p] = NoPod

C10_Witness ==
    \E p \in Procs :
        /\ pc[p] = "gpu_unavailable"
        /\ Last(trace[p]).op = "create_pod"
        /\ ~Last(trace[p]).ok

DeployCalls == {"create_template", "create_endpoint"}

\* C5: in every create_project_endpoint run, an endpoint-creation call comes
\* after a successful template creation of the same run, names the id that
\* template creation returned and the config's storage_id; no endpoint
\* creation follows a failed template creation; and a run in which either
\* call failed has failed and returned no endpoint id.
C5_PromotionOrdered ==
    \A p \in Procs :
        /\ \A i \in Idx(p) :
              trace[p][i].op = "create_endpoint"
              => /\ \E j \in 1..(i - 1) :
                       /\ trace[p][j].op = "create_template"
                       /\ trace[p][j].ok
                       /\ trace[p][j].arg2 = trace[p][i].arg
                 /\ trace[p][i].arg2 = config.storage_id
        /\ (\E j \in Idx(p) : trace[p][j].op = "create_template" /\ ~trace[p][j].ok)
           => \A i \in Idx(p) : trace[p][i].op # "create_endpoint"
        /\ (\E j \in Idx(p) : trace[p][j].op \in DeployCalls /\ ~trace[p][j].ok)
           => (pc[p] = "failed" /\ deployed_endpoint[p] = Null)
        /\ deployed_endpoint[p] # Null
           => \E e \in endpoints :
                 /\ e.id = deployed_endpoint[p]
                 /\ e.template_id \in {t.id : t \in templates}
                 /\ e.network_volume_id = config.storage_id

C5_Witness ==
    \E p \in Procs :
        /\ pc[p] = "deployed"
        /\ deployed_endpoint[p] = EndpointNames[2]
        /\ Last(trace[p]).op = "create_endpoint"
        /\ Last(trace[p]).arg = TemplateNames[2]

\* C6: a create_project_endpoint run whose endpoint creation failed after
\* its template creation succeeded made no remote call after the failed
\* one, its template is still on the remote service, and the config is the
\* one the run loaded.
C6_NoRollback ==
    \A p \in Procs : \A i \in Idx(p) :
        (trace[p][i].op = "create_endpoint" /\ ~trace[p][i].ok)
        => /\ i = Len(trace[p])
           /\ \A j \in 1..(i - 1) :
                 (trace[p][j].op = "create_template" /\ trace[p][j].ok)
                 => \E t \in templates : t.id = trace[p][j].arg2
           /\ \E j \in 1..(i - 1) : trace[p][j].op = "create_template" /\ trace[p][j].ok
           /\ config = cfg[p]

C6_Witness ==
    \E p \in Procs :
        /\ pc[p] = "failed"
        /\ Last(trace[p]).op = "create_endpoint"
        /\ ~Last(trace[p]).ok
        /\ \E t \in templates : t.id = project_endpoint_template[p]

\* C9: the environment sent with every pod deploy and every template
\* creation binds RUNPOD_PROJECT_ID to the config's uuid.
C9_ProjectIdBound ==
    \A p \in Procs : \A i \in Idx(p) :
        trace[p][i].op \in {"create_pod", "create_template"}
        => /\ ProjectIdKey \in DOMAIN trace[p][i].env
           /\ trace[p][i].env[ProjectIdKey] = config.uuid

\* C2: once the supervisory script has exited through its EXIT trap, no
\* handler process it started is alive.
C2_NoHandlerLeftAlive ==
    (spc = "exited" /\ inCleanup) => alive = {}

\* C7: while the script runs, a qualifying file event is eventually followed
\* by the end of the handler that was current at the event and the start of
\* a new handler.
C7_EveryChangeRestarts ==
    \A h \in 1..(MaxEvents + 1) :
        (h \in unserved) ~> (h \notin unserved \/ ~ScriptRunning)

\* The lines of an ignore file: the text between newlines, and the text
\* after the last newline when there is any.
RECURSIVE SplitLines(_, _)
SplitLines(f, cur) ==
    IF f = <<>>
    THEN IF cur = <<>> THEN <<>> ELSE <<cur>>
    ELSE IF Head(f) = Newline
         THEN <<cur>> \o SplitLines(Tail(f), <<>>)
         ELSE SplitLines(Tail(f), Append(cur, Head(f)))

\* A line that is blank, or a comment: its first visible character is '#'.
BlankOrComment(l) ==
    LET v == SelectSeq(l, LAMBDA c : c # Space)
    IN  v = <<>> \/ v[1] = "#"

\* One fragment for each line that is neither, in file order.
RECURSIVE ExpectedFragments(_)
ExpectedFragments(ls) ==
    IF ls = <<>> THEN <<>>
    ELSE (IF BlankOrComment(Head(ls)) THEN <<>>
          ELSE << <<"(">> \o SelectSeq(Head(ls), LAMBDA c : c # Space) \o <<")">> >>)
         \o ExpectedFragments(Tail(ls))

\* C8: when the loop over .runpodignore has ended, exclude_pattern is the
\* base pattern followed, in file order, by one parenthesised fragment for
\* each line of the file that is neither blank nor a comment.
C8_OneFragmentPerLine ==
    (ppc = "done" /\ ignoreFile # AbsentFile)
    => exclude_pattern = <<BasePattern>> \o ExpectedFragments(SplitLines(ignoreFile, <<>>))

\* the step of p appends one pod-create call to its trace
IssuesCreate(p) ==
    /\ Len(trace'[p]) = Len(trace[p]) + 1
    /\ Last(trace'[p]).op = "create_pod"

\* C16 (as stated): whether launch_project invocations run one after another
\* or overlap, no pod-create call is issued for the project uuid while a pod
\* tagged with that uuid exists.
C16_OnePodPerUuid ==
    [][\A p \in Procs :
          IssuesCreate(p) => ~\E d \in pods : d.project = cfg[p].uuid]_vars

\* C16 (amended): as long as no launch_project invocation began while another
\* was under way, no pod-create call is issued for the project uuid while a
\* pod tagged with that uuid exists.
C16_OnePodPerUuidSequential ==
    [][\A p \in Procs :
          (IssuesCreate(p) /\ ~overlap)
          => ~\E d \in pods : d.project = cfg[p].uuid]_vars

\* two launches run one after another: the first created the pod, the second
\* found it
C16_Witness ==
    /\ ~overlap
    /\ \E p, q \in Procs :
          /\ command[p] = "launch_project" /\ command[q] = "launch_project"
          /\ \E i \in Idx(p) : trace[p][i].op = "create_pod" /\ trace[p][i].ok
          /\ pc[q] = "already_launched"
          /\ Cardinality({d \in pods : d.project = config.uuid}) = 1

\* C18: whenever launch_project reports "already launched" or
\* start_project_api finds the project pod, the remote virtual environment
\* has been created and the dependencies installed.
C18_PodImpliesBootstrapped ==
    \A p \in Procs :
        (\/ command[p] = "launch_project" /\ pc[p] = "already_launched"
         \/ command[p] = "start_project_api" /\ project_pod[p] # Null)
        => {"venv", "pip_install"} \subseteq volume

\* C20: a start_project_api run that ended after opening the SSH connection
\* has closed it, and one that found no project pod raised without opening a
\* connection or synchronising files.
C20_ConnectionReleased ==
    \A p \in Procs :
        command[p] = "start_project_api"
        => /\ (pc[p] \in {Raised, "start_returned", "interrupted"}
               /\ \E i \in Idx(p) : trace[p][i].op = "ssh_open" /\ trace[p][i].ok)
              => ssh_conn[p] = "closed"
           /\ pc[p] = "click_exception"
              => /\ ssh_conn[p] = "none"
                 /\ \A i \in Idx(p) :
                       trace[p][i].op \notin {"ssh_open", "sync_directory"}

\* the remote service reports the pod p waits for as RUNNING with a runtime
RemoteReady(p) ==
    \E d \in pods :
        /\ d.id = new_pod[p].id
        /\ d.desiredStatus = "RUNNING"
        /\ d.runtime # Null

\* C17: the polling loop of launch_project has no timeout or limit: a waiting
\* run whose last observed descriptor is not ready can always poll again, it
\* leaves the loop only when the pod is RUNNING with a non-null runtime (so a
\* pod that never gets there is polled forever and never bootstrapped), and
\* once the pod is in that state the run eventually leaves the loop and opens
\* the SSH connection that starts the bootstrap.
C17_UnboundedWait ==
    /\ [](\A p \in Procs :
            (/\ pc[p] = "lp_wait"
             /\ ~(new_pod[p].desiredStatus = "RUNNING" /\ new_pod[p].runtime # Null))
            => ENABLED (LaunchPoll(p) \/ LaunchPollOn(p)))
    /\ [][\A p \in Procs :
            (pc[p] = "lp_wait" /\ pc'[p] # "lp_wait") => RemoteReady(p)]_vars
    /\ \A p \in Procs :
          (pc[p] = "lp_wait" /\ RemoteReady(p))
          ~> (pc[p] # "lp_wait" /\ \E i \in Idx(p) : trace[p][i].op = "ssh_open")

\* a run that polled past the model's record of polls and then left the loop
C17_Witness ==
    \E p \in Procs :
        /\ polls[p] = MaxPolls
        /\ Last(trace[p]).op = "ssh_open"
        /\ trace[p][Len(trace[p]) - 1].op = "get_pod"

\* C19: when the script is run again while an earlier run of it is still
\* running on the pod, the second script does not start its handler while a
\* handler of the earlier script is alive, and once the second script has
\* killed the file watcher the earlier script eventually has exited with no
\* handler of its own left alive.
C19_NewSessionSupersedes ==
    /\ [][(nalive' /\ ~nalive) => alive = {}]_vars
    /\ (npc = "trap") ~> (spc = "exited" /\ alive = {})

ForceKillPcs == {"term", "check1", "kill9", "check2"}

\* C13: at most one handler started by the script is alive; the script
\* starts a further handler only when the last thing force_kill did was to
\* find the previous handler gone with ps -p; and when the check after
\* kill -9 finds it alive the script goes to its exit, after which it starts
\* no handler.
C13_OneLiveHandler ==
    /\ [](Cardinality(alive) <= 1)
    /\ [][(spawned' # spawned /\ spawned >= 1)
          => /\ spawned \notin alive
             /\ verified = spawned
             /\ "KILL" \in {signals[i] : i \in DOMAIN signals} \/ signals = <<"TERM">>]_vars
    /\ [][(fkPc = "check2" /\ fkArg \in alive /\ fkPc' # fkPc)
          => spc' \in {"cleanup", "exited"}]_vars
    /\ [][(spc \in {"cleanup", "exited"})
          => /\ spawned' = spawned
             /\ spc' \in {"cleanup", "exited"}]_vars

\* the script restarted a handler after kill -9 was needed
C13_Witness ==
    /\ spawned = 2
    /\ alive = {2}
    /\ verified = 1
    /\ signals = <<"TERM", "KILL">>
    /\ spc = "setpid_loop"

\* the step is the shell being terminated from outside
Interrupted == exit_status' = "signal" /\ exit_status # "signal"

\* C14: force_kill first sends the graceful signal and then checks; it sends
\* the force-kill signal exactly when that check finds the process alive;
\* after the force-kill it checks again and, if the process is still alive,
\* makes the shell exit with status 1; a process found stopped gets no
\* force-kill and no exit, and a process that is stopped stays stopped.
\* (Steps in which the shell itself is terminated from outside are not steps
\* of force_kill.)
C14_GracefulThenForced ==
    /\ [][(fkPc = "term" /\ fkPc' # fkPc /\ ~Interrupted)
          => /\ signals = <<>>
             /\ signals' = <<"TERM">>
             /\ fkPc' = "check1"]_vars
    /\ [][(fkPc = "check1" /\ fkPc' # fkPc /\ ~Interrupted)
          => /\ (fkPc' = "kill9") <=> (fkArg \in alive)
             /\ fkArg \notin alive
                => /\ fkPc' = "none"
                   /\ signals' = <<"TERM">>
                   /\ exit_status' = exit_status]_vars
    /\ [][(signals' # signals /\ signals' # <<>> /\ Last(signals') = "KILL")
          => /\ fkPc = "kill9"
             /\ signals' = <<"TERM", "KILL">>
             /\ fkPc' = "check2"]_vars
    /\ [][(fkPc = "check2" /\ fkPc' # fkPc /\ ~Interrupted)
          => IF fkArg \in alive
             THEN exit_status' = "1" /\ spc' \in {"cleanup", "exited"}
             ELSE exit_status' = exit_status /\ fkPc' = "none"]_vars
    /\ [][(fkPc \in ForceKillPcs /\ fkArg \notin alive) => fkArg \notin alive']_vars

\* kill -9 left the handler alive in the loop: the shell was told to exit 1
C14_Witness ==
    /\ exit_status = "1"
    /\ fkCaller = "cleanup"
    /\ changed_file # "none"
    /\ 1 \in alive
    /\ spawned = 1

\* the step starts a handler inside the watch loop
Restarts == spawned' # spawned /\ spawned >= 1

\* a pip command is run only with the old handler gone and the new one not
\* yet started
PipBetween ==
    [][(pip_log' # pip_log /\ pip_log' # <<>>)
       => /\ last_pid \notin alive
          /\ verified = last_pid
          /\ spawned = last_pid
          /\ alive = {}]_vars

\* C15 (as stated): in each iteration of the watch loop the requirements are
\* installed if and only if the changed path is the requirements file, after
\* the old handler has been terminated and before the new one is started.
C15_ReinstallOnRequirements ==
    /\ [][Restarts
          => (("install" \in {pip_log[i] : i \in DOMAIN pip_log})
              <=> changed_file = RequirementsFile)]_vars
    /\ PipBetween

\* C15 (amended): in each iteration of the watch loop the pip chain is run
\* if and only if the changed path is the requirements file, after the old
\* handler has been terminated and before the new one is started; the chain
\* installs the requirements only after it has upgraded pip, and the handler
\* is restarted whether or not it got that far.
C15_ReinstallChainOnRequirements ==
    /\ [][Restarts
          => /\ (pip_log # <<>>) <=> changed_file = RequirementsFile
             /\ pip_log \in {<<>>, <<"upgrade">>, <<"upgrade", "install">>}]_vars
    /\ PipBetween

\* a requirements change was followed by a reinstall and a restart
C15_Witness ==
    /\ changed_file = RequirementsFile
    /\ pip_log = <<"upgrade", "install">>
    /\ spc = "setpid_loop"
    /\ alive = {2}

RECURSIVE Balanced(_, _, _, _, _)
\* the brackets open / close of token sequence d nest properly from position
\* i on, `depth` of them being open
Balanced(d, i, depth, open, close) ==
    IF i > Len(d) THEN depth = 0
    ELSE IF d[i] = open THEN Balanced(d, i + 1, depth + 1, open, close)
    ELSE IF d[i] = close
         THEN depth > 0 /\ Balanced(d, i + 1, depth - 1, open, close)
    ELSE Balanced(d, i + 1, depth, open, close)

\* positions of document at which field f is written as a key
KeyAt(f) == {i \in 1..(Len(document) - 2) : document[i] = f /\ document[i + 1] = ":"}

\* C11: for every valid set of fields the returned document has the mutation
\* envelope (the mutation keyword, properly nested braces and parentheses
\* around the input object), names every supplied field once with the value
\* supplied, and contains no null: an optional field that was not supplied
\* is either absent or, for gpu_count, written with its default 1.
C11_DeployWellFormed ==
    mpc = "returned"
    => /\ document[1] = "mutation"
       /\ document[2] = "{"
       /\ Balanced(document, 1, 0, "{", "}")
       /\ Balanced(document, 1, 0, "(", ")")
       /\ \E i \in 1..Len(document) : document[i] = "input"
       /\ \A f \in DOMAIN fields :
             /\ Cardinality(KeyAt(f)) = 1
             /\ \A i \in KeyAt(f) : document[i + 2] = fields[f]
       /\ \A i \in 1..Len(document) : document[i] # "null"
       /\ \A f \in {"ports", "volume_in_gb"} \ DOMAIN fields : KeyAt(f) = {}
       /\ "gpu_count" \notin DOMAIN fields
          => \A i \in KeyAt("gpu_count") : document[i + 2] = "1"

\* only the four required fields were supplied
C11_Witness ==
    /\ mpc = "returned"
    /\ DOMAIN fields = {"name", "image_name", "cloud_type", "container_disk_in_gb"}
    /\ Len(document) > 0

\* C12: a call of the deploy builder from which name, image_name,
\* container_disk_in_gb or cloud_type is missing ends in a validation error
\* and returns no document.
C12_DeployValidation ==
    /\ (\E f \in {"name", "image_name", "container_disk_in_gb", "cloud_type"} :
           f \notin DOMAIN fields)
       => /\ mpc \in {"call", "validation_error"}
          /\ document = <<>>
    /\ mpc = "returned"
       => {"name", "image_name", "container_disk_in_gb", "cloud_type"}
             \subseteq DOMAIN fields

\* cloud_type alone was missing
C12_Witness ==
    /\ mpc = "validation_error"
    /\ DOMAIN fields = {"name", "image_name", "container_disk_in_gb", "gpu_count"}

============================================================================
